---- MODULE Spec2Model ----
(***************************************************************************)
(* The linked lists of src/src as state machines: the raw-pointer FIFO     *)
(* queue of fifth.rs (Spec), the doubly-linked list of fourth.rs           *)
(* (SpecFourth), the stacks of first.rs and second.rs (SpecStack) and the  *)
(* persistent list of third.rs (SpecThird).  A run is a program that uses  *)
(* the lists of one specification.  What follows is about the queue; each  *)
(* other list is described where it is defined.                            *)
(*                                                                         *)
(* The heap is an arena of nodes.  A node's number is the identity of one  *)
(* allocation made by Box::new in push (the i-th push allocates node i),   *)
(* never an address that the allocator may hand out again.  Raw pointers   *)
(* are node numbers, ptr::null_mut() is NULL.                              *)
(*                                                                         *)
(* The callers are all the programs the borrow checker accepts against the *)
(* public signatures: push, pop, into_iter and drop need the list          *)
(* exclusively (no borrow of it is live), peek, peek_mut, iter and         *)
(* iter_mut take &self and are callable while other borrows of the list    *)
(* are live.  The references they hand out are kept in the bag refs until  *)
(* the caller lets them go.  Drop::drop runs to its end in one step: the   *)
(* program is single-threaded and nothing runs between its pops.           *)
(*                                                                         *)
(* pushed, popped, written, into and op are history variables: they record *)
(* what was called and returned.  No operation reads their contents; only  *)
(* their lengths are used, to number the node a push allocates and to      *)
(* bound a run.                                                            *)
(***************************************************************************)
EXTENDS Integers, Sequences, FiniteSets, Bags, TLC

MaxNodes == 3
MaxRefs == 2
MaxLists == 4

NULL == 0
Nodes == 1..MaxNodes
\* The element type T is a parameter of the list and the code never inspects
\* an element: two values tell an element from its neighbour and a written
\* value from the one it replaces.
Values == {1, 2}

\* Option<T>
None == <<>>
Some(x) == <<x>>

VARIABLES
  head,     \* List.head: *mut Node<T>
  tail,     \* List.tail: *mut Node<T>
  elem,     \* Node.elem of every node of the arena
  next,     \* Node.next of every node of the arena
  status,   \* per node: "unallocated", "live" (Box::into_raw), "reclaimed" (Box::from_raw dropped)
  owner,    \* where the List value is: "list" (a variable of the caller), "into_iter" (moved into IntoIter), "dropped", "aborted" (the process ended in push)
  refs,     \* bag of the live references and iterators handed out by peek, peek_mut, iter, iter_mut and the iterators' next
  pushed,   \* history: the values pushed, in order; pushed[i] went into node i
  popped,   \* history: one record per node reclaimed by pop, in order
  written,  \* history: an element has been assigned through a mutable reference
  into,     \* history of the IntoIter: what the list held at into_iter() and what next() returned since
  op,       \* the last call: its name, argument, result and the node it touched
  first,    \* the List of src/src/first.rs and its heap
  second,   \* the List of src/src/second.rs and its heap
  third,    \* the Lists of src/src/third.rs and the heap they share
  fourth    \* the List of src/src/fourth.rs and its heap

vars == <<head, tail, elem, next, status, owner, refs, pushed, popped, written, into, op,
          first, second, third, fourth>>

\* The state of the queue of fifth.rs, which the other lists never touch.
fifth == <<head, tail, elem, next, status, owner, refs, pushed, popped, written, into>>

Call(name, arg, ret, node) == [name |-> name, arg |-> arg, ret |-> ret, node |-> node]

\* A reference or iterator handed out to the caller.  kind is
\*   "peek"      &T from peek            "peek_mut"  &mut T from peek_mut
\*   "iter"      an Iter, node its pointer field (NULL for None)
\*   "iter_mut"  an IterMut, node its pointer field
\*   "item"      &T yielded by Iter::next   "item_mut"  &mut T yielded by IterMut::next
\* seen lists the nodes an iterator has yielded (empty for plain references).
Ref(kind, node, seen) == [kind |-> kind, node |-> node, seen |-> seen]

Mutable(r) == r.kind \in {"peek_mut", "iter_mut", "item_mut"}

\* The nodes reached from n by following next, at most k of them.
RECURSIVE ChainFrom(_, _)
ChainFrom(n, k) ==
  IF n = NULL \/ k = 0 THEN <<>> ELSE <<n>> \o ChainFrom(next[n], k - 1)

Chain == ChainFrom(head, MaxNodes + 1)

Contents == [i \in 1..Len(Chain) |-> elem[Chain[i]]]

Live == {n \in Nodes : status[n] = "live"}

\* first.rs, List::new: head is Link::Empty.  A Box<Node> is the number of
\* the node it owns (the i-th Box::new makes node i), Link::Empty is NULL.
First_new ==
  [head |-> NULL,
   elem |-> [n \in Nodes |-> 0],
   next |-> [n \in Nodes |-> NULL],
   status |-> [n \in Nodes |-> "unallocated"],
   allocated |-> 0]

\* second.rs, List::new: head is None.  pushes, inserts and pops are history:
\* the calls of push, the calls of insert_at that returned Ok and the calls of
\* pop that returned a value.
Second_new ==
  [head |-> NULL,
   elem |-> [n \in Nodes |-> 0],
   next |-> [n \in Nodes |-> NULL],
   status |-> [n \in Nodes |-> "unallocated"],
   allocated |-> 0,
   pushes |-> 0, inserts |-> 0, pops |-> 0]

\* The List values of third.rs a run makes: the i-th is made by List::new
\* (the first), prepend or tail.
Lists == 1..MaxLists

\* How a List of third.rs was made: by "new", or by "prepend" or "tail" called
\* on list from with argument arg; "none" for a List not made yet.
Origin(made_by, from, arg) == [op |-> made_by, from |-> from, arg |-> arg]

\* third.rs: one List made by List::new (head None) and no node.  A node's
\* number is the identity of one Rc::new in prepend.  A List is "live" until
\* Drop::drop has run on it.
Third_new ==
  [elem |-> [n \in Nodes |-> 0],
   next |-> [n \in Nodes |-> NULL],
   status |-> [n \in Nodes |-> "unallocated"],
   allocated |-> 0,
   lists |-> [l \in Lists |->
                IF l = 1 THEN [state |-> "live", head |-> NULL, origin |-> Origin("new", 0, 0)]
                         ELSE [state |-> "none", head |-> NULL, origin |-> Origin("none", 0, 0)]],
   made |-> 1]

\* fourth.rs, List::new: head and tail None, no node allocated yet.  The heap
\* is an arena as for the queue: a node's number is the identity of one
\* Rc::new(RefCell::new(Node::new(elem))), allocated counts them.  owner is
\* "list" while the caller holds the List, "dropped" after Drop::drop,
\* "panicked" after an unwrap() of pop_front or pop_back has panicked.
Fourth_new ==
  [head |-> NULL, tail |-> NULL,
   elem |-> [n \in Nodes |-> 0],
   next |-> [n \in Nodes |-> NULL],
   prev |-> [n \in Nodes |-> NULL],
   status |-> [n \in Nodes |-> "unallocated"],
   allocated |-> 0,
   owner |-> "list"]

\* A list of first.rs to fourth.rs in a run that does not make it.
NotMade == <<>>

\* fifth.rs, List::new
Fifth_new ==
  /\ head = NULL
  /\ tail = NULL
  /\ elem = [n \in Nodes |-> 0]
  /\ next = [n \in Nodes |-> NULL]
  /\ status = [n \in Nodes |-> "unallocated"]
  /\ owner = "list"
  /\ refs = EmptyBag
  /\ pushed = <<>>
  /\ popped = <<>>
  /\ written = FALSE
  /\ into = [snap |-> <<>>, out |-> <<>>]
  /\ op = Call("new", 0, None, NULL)

\* A program that makes a queue of fifth.rs and none of the other lists.
Init ==
  /\ Fifth_new
  /\ first = NotMade
  /\ second = NotMade
  /\ third = NotMade
  /\ fourth = NotMade

\* A program that makes a list of fourth.rs; the queue is left as made.
InitFourth ==
  /\ Fifth_new
  /\ first = NotMade
  /\ second = NotMade
  /\ third = NotMade
  /\ fourth = Fourth_new

\* A program that makes a list of first.rs and one of second.rs.
InitStack ==
  /\ Fifth_new
  /\ first = First_new
  /\ second = Second_new
  /\ third = NotMade
  /\ fourth = NotMade

\* A program that makes a list of third.rs.
InitThird ==
  /\ Fifth_new
  /\ first = NotMade
  /\ second = NotMade
  /\ third = Third_new
  /\ fourth = NotMade

\* List::push linking the new node in front of head instead of behind tail.
PushAtHead(x) ==
  /\ owner = "list"
  /\ refs = EmptyBag
  /\ Len(pushed) < MaxNodes
  /\ LET new_node == Len(pushed) + 1 IN
       /\ status' = [status EXCEPT ![new_node] = "live"]
       /\ elem' = [elem EXCEPT ![new_node] = x]
       /\ next' = [next EXCEPT ![new_node] = head]
       /\ head' = new_node
       /\ tail' = IF tail = NULL THEN new_node ELSE tail
       /\ pushed' = Append(pushed, x)
       /\ op' = Call("push", x, None, new_node)
  /\ UNCHANGED <<owner, refs, popped, written, into>>
  /\ UNCHANGED <<first, second, third, fourth>>

\* List::push without (*self.tail).next = new_node.
PushNoLink(x) ==
  /\ owner = "list"
  /\ refs = EmptyBag
  /\ Len(pushed) < MaxNodes
  /\ LET new_node == Len(pushed) + 1 IN
       /\ status' = [status EXCEPT ![new_node] = "live"]
       /\ elem' = [elem EXCEPT ![new_node] = x]
       /\ next' = [next EXCEPT ![new_node] = NULL]
       /\ head' = IF tail = NULL THEN new_node ELSE head
       /\ tail' = new_node
       /\ pushed' = Append(pushed, x)
       /\ op' = Call("push", x, None, new_node)
  /\ UNCHANGED <<owner, refs, popped, written, into>>
  /\ UNCHANGED <<first, second, third, fourth>>

\* List::push
Push(x) ==
  /\ owner = "list"
  /\ refs = EmptyBag
  /\ Len(pushed) < MaxNodes
  /\ LET new_node == Len(pushed) + 1 IN
       /\ status' = [status EXCEPT ![new_node] = "live"]
       /\ elem' = [elem EXCEPT ![new_node] = x]
       /\ IF tail = NULL
            THEN /\ head' = new_node
                 /\ next' = [next EXCEPT ![new_node] = NULL]
            ELSE /\ head' = head
                 /\ next' = [next EXCEPT ![new_node] = NULL, ![tail] = new_node]
       /\ tail' = new_node
       /\ pushed' = Append(pushed, x)
       /\ op' = Call("push", x, None, new_node)
  /\ UNCHANGED <<owner, refs, popped, written, into>>
  /\ UNCHANGED <<first, second, third, fourth>>

\* List::push writing self.tail before Box::new has returned.
PushAbortAfterWrite(x) ==
  /\ owner = "list"
  /\ refs = EmptyBag
  /\ tail' = NULL
  /\ owner' = "aborted"
  /\ op' = Call("push_abort", x, None, NULL)
  /\ UNCHANGED <<head, elem, next, status, refs, pushed, popped, written, into>>
  /\ UNCHANGED <<first, second, third, fourth>>

\* List::push when Box::new cannot allocate: Box::new calls
\* alloc::handle_alloc_error, which ends the process (no unwinding, no
\* destructor runs).  Box::new is the first statement of push that can fail
\* and it comes before every write to head, tail or a node.
PushAbort(x) ==
  /\ owner = "list"
  /\ refs = EmptyBag
  /\ owner' = "aborted"
  /\ op' = Call("push_abort", x, None, NULL)
  /\ UNCHANGED <<head, tail, elem, next, status, refs, pushed, popped, written, into>>
  /\ UNCHANGED <<first, second, third, fourth>>

\* List::pop returning the element at the wrong end.
PopOfTail(h, t, st) ==
  IF h = NULL
    THEN [ret |-> None, node |-> NULL, head |-> h, tail |-> t, status |-> st]
    ELSE [ret |-> Some(elem[t]),
          node |-> h,
          head |-> next[h],
          tail |-> IF next[h] = NULL THEN NULL ELSE t,
          status |-> [st EXCEPT ![h] = "reclaimed"]]

\* List::pop without the reset of tail when the last node goes.
PopOfKeepsTail(h, t, st) ==
  IF h = NULL
    THEN [ret |-> None, node |-> NULL, head |-> h, tail |-> t, status |-> st]
    ELSE [ret |-> Some(elem[h]),
          node |-> h,
          head |-> next[h],
          tail |-> t,
          status |-> [st EXCEPT ![h] = "reclaimed"]]

\* The body of List::pop on a list whose fields are h and t, with st the
\* nodes' allocation state: the result and the fields and state afterwards.
PopOf(h, t, st) ==
  IF h = NULL
    THEN [ret |-> None, node |-> NULL, head |-> h, tail |-> t, status |-> st]
    ELSE [ret |-> Some(elem[h]),
          node |-> h,
          head |-> next[h],
          tail |-> IF next[h] = NULL THEN NULL ELSE t,
          status |-> [st EXCEPT ![h] = "reclaimed"]]

Reclaim(r, by) == [node |-> r.node, val |-> r.ret[1], by |-> by]

\* List::pop without self.head = head.next.
PopKeepsHead ==
  /\ owner = "list"
  /\ refs = EmptyBag
  /\ LET r == PopOf(head, tail, status) IN
       /\ status' = r.status
       /\ popped' = IF r.ret = None THEN popped ELSE Append(popped, Reclaim(r, "pop"))
       /\ op' = Call("pop", 0, r.ret, r.node)
  /\ UNCHANGED <<head, tail, elem, next, owner, refs, pushed, written, into>>
  /\ UNCHANGED <<first, second, third, fourth>>

\* List::pop with a &self receiver: callable while borrows are live.
PopShared ==
  /\ owner = "list"
  /\ LET r == PopOf(head, tail, status) IN
       /\ head' = r.head
       /\ tail' = r.tail
       /\ status' = r.status
       /\ popped' = IF r.ret = None THEN popped ELSE Append(popped, Reclaim(r, "pop"))
       /\ op' = Call("pop", 0, r.ret, r.node)
  /\ UNCHANGED <<elem, next, owner, refs, pushed, written, into>>
  /\ UNCHANGED <<first, second, third, fourth>>

\* List::pop
Pop ==
  /\ owner = "list"
  /\ refs = EmptyBag
  /\ LET r == PopOf(head, tail, status) IN
       /\ head' = r.head
       /\ tail' = r.tail
       /\ status' = r.status
       /\ popped' = IF r.ret = None THEN popped ELSE Append(popped, Reclaim(r, "pop"))
       /\ op' = Call("pop", 0, r.ret, r.node)
  /\ UNCHANGED <<elem, next, owner, refs, pushed, written, into>>
  /\ UNCHANGED <<first, second, third, fourth>>

\* List::peek handing out the element at the other end of the chain.
PeekTail ==
  /\ owner = "list"
  /\ IF head = NULL
       THEN /\ refs' = refs
            /\ op' = Call("peek", 0, None, NULL)
       ELSE /\ BagCardinality(refs) < MaxRefs
            /\ refs' = refs (+) SetToBag({Ref("peek", tail, <<>>)})
            /\ op' = Call("peek", 0, Some(elem[tail]), tail)
  /\ UNCHANGED <<head, tail, elem, next, status, owner, pushed, popped, written, into>>
  /\ UNCHANGED <<first, second, third, fourth>>

\* List::peek
Peek ==
  /\ owner = "list"
  /\ IF head = NULL
       THEN /\ refs' = refs
            /\ op' = Call("peek", 0, None, NULL)
       ELSE /\ BagCardinality(refs) < MaxRefs
            /\ refs' = refs (+) SetToBag({Ref("peek", head, <<>>)})
            /\ op' = Call("peek", 0, Some(elem[head]), head)
  /\ UNCHANGED <<head, tail, elem, next, status, owner, pushed, popped, written, into>>
  /\ UNCHANGED <<first, second, third, fourth>>

\* List::peek_mut
PeekMut ==
  /\ owner = "list"
  /\ IF head = NULL
       THEN /\ refs' = refs
            /\ op' = Call("peek_mut", 0, None, NULL)
       ELSE /\ BagCardinality(refs) < MaxRefs
            /\ refs' = refs (+) SetToBag({Ref("peek_mut", head, <<>>)})
            /\ op' = Call("peek_mut", 0, Some(elem[head]), head)
  /\ UNCHANGED <<head, tail, elem, next, status, owner, pushed, popped, written, into>>
  /\ UNCHANGED <<first, second, third, fourth>>

\* Another live reference to the node r refers to: with r mutable, the two
\* break the aliasing rules of the language (undefined behaviour).
Aliased(r) == \E s \in BagToSet(refs (-) SetToBag({r})) : s.node = r.node

\* The caller assigns v through the &mut T of peek_mut or IterMut::next
\* (*r = v).  While r is aliased the compiler may keep the element in a
\* register or order the store against the accesses through the other
\* reference, so the node may be left with the value it had.
Write(r, v) ==
  /\ r.kind \in {"peek_mut", "item_mut"}
  /\ \/ elem' = [elem EXCEPT ![r.node] = v]
     \/ /\ Aliased(r)
        /\ elem[r.node] # v
        /\ elem' = elem
  /\ written' = TRUE
  /\ op' = Call(IF r.kind = "peek_mut" THEN "write_peek_mut" ELSE "write_item_mut", v, None, r.node)
  /\ UNCHANGED <<head, tail, next, status, owner, refs, pushed, popped, into>>
  /\ UNCHANGED <<first, second, third, fourth>>

\* The end of a reference's or an iterator's lifetime.
Release(r) ==
  /\ refs' = refs (-) SetToBag({r})
  /\ op' = Call("release", 0, None, NULL)
  /\ UNCHANGED <<head, tail, elem, next, status, owner, pushed, popped, written, into>>
  /\ UNCHANGED <<first, second, third, fourth>>

\* List::iter
Iter ==
  /\ owner = "list"
  /\ BagCardinality(refs) < MaxRefs
  /\ refs' = refs (+) SetToBag({Ref("iter", head, <<>>)})
  /\ op' = Call("iter", 0, None, head)
  /\ UNCHANGED <<head, tail, elem, next, status, owner, pushed, popped, written, into>>
  /\ UNCHANGED <<first, second, third, fourth>>

\* List::iter_mut
IterMut ==
  /\ owner = "list"
  /\ BagCardinality(refs) < MaxRefs
  /\ refs' = refs (+) SetToBag({Ref("iter_mut", head, <<>>)})
  /\ op' = Call("iter_mut", 0, None, head)
  /\ UNCHANGED <<head, tail, elem, next, status, owner, pushed, popped, written, into>>
  /\ UNCHANGED <<first, second, third, fourth>>

\* Iter::next stepping over the successor of the node it yields.
IterNextSkips(r) ==
  /\ r.kind = "iter"
  /\ IF r.node = NULL
       THEN /\ refs' = refs
            /\ op' = Call("iter_next", 0, None, NULL)
       ELSE /\ BagCardinality(refs) < MaxRefs
            /\ refs' = (refs (-) SetToBag({r}))
                         (+) SetToBag({Ref("iter",
                                IF next[r.node] = NULL THEN NULL ELSE next[next[r.node]],
                                Append(r.seen, r.node))})
                         (+) SetToBag({Ref("item", r.node, <<>>)})
            /\ op' = Call("iter_next", 0, Some(elem[r.node]), r.node)
  /\ UNCHANGED <<head, tail, elem, next, status, owner, pushed, popped, written, into>>
  /\ UNCHANGED <<first, second, third, fourth>>

\* Iter::next
IterNext(r) ==
  /\ r.kind = "iter"
  /\ IF r.node = NULL
       THEN /\ refs' = refs
            /\ op' = Call("iter_next", 0, None, NULL)
       ELSE /\ BagCardinality(refs) < MaxRefs
            /\ refs' = (refs (-) SetToBag({r}))
                         (+) SetToBag({Ref("iter", next[r.node], Append(r.seen, r.node))})
                         (+) SetToBag({Ref("item", r.node, <<>>)})
            /\ op' = Call("iter_next", 0, Some(elem[r.node]), r.node)
  /\ UNCHANGED <<head, tail, elem, next, status, owner, pushed, popped, written, into>>
  /\ UNCHANGED <<first, second, third, fourth>>

\* IterMut::next yielding the element without storing the successor in
\* self.pointer.
IterMutNextStays(r) ==
  /\ r.kind = "iter_mut"
  /\ IF r.node = NULL
       THEN /\ refs' = refs
            /\ op' = Call("iter_mut_next", 0, None, NULL)
       ELSE /\ BagCardinality(refs) < MaxRefs
            /\ refs' = (refs (-) SetToBag({r}))
                         (+) SetToBag({Ref("iter_mut", r.node, Append(r.seen, r.node))})
                         (+) SetToBag({Ref("item_mut", r.node, <<>>)})
            /\ op' = Call("iter_mut_next", 0, Some(elem[r.node]), r.node)
  /\ UNCHANGED <<head, tail, elem, next, status, owner, pushed, popped, written, into>>
  /\ UNCHANGED <<first, second, third, fourth>>

\* IterMut::next stepping over the successor of the node it yields.
IterMutNextSkips(r) ==
  /\ r.kind = "iter_mut"
  /\ IF r.node = NULL
       THEN /\ refs' = refs
            /\ op' = Call("iter_mut_next", 0, None, NULL)
       ELSE /\ BagCardinality(refs) < MaxRefs
            /\ refs' = (refs (-) SetToBag({r}))
                         (+) SetToBag({Ref("iter_mut",
                                IF next[r.node] = NULL THEN NULL ELSE next[next[r.node]],
                                Append(r.seen, r.node))})
                         (+) SetToBag({Ref("item_mut", r.node, <<>>)})
            /\ op' = Call("iter_mut_next", 0, Some(elem[r.node]), r.node)
  /\ UNCHANGED <<head, tail, elem, next, status, owner, pushed, popped, written, into>>
  /\ UNCHANGED <<first, second, third, fourth>>

\* IterMut::next
IterMutNext(r) ==
  /\ r.kind = "iter_mut"
  /\ IF r.node = NULL
       THEN /\ refs' = refs
            /\ op' = Call("iter_mut_next", 0, None, NULL)
       ELSE /\ BagCardinality(refs) < MaxRefs
            /\ refs' = (refs (-) SetToBag({r}))
                         (+) SetToBag({Ref("iter_mut", next[r.node], Append(r.seen, r.node))})
                         (+) SetToBag({Ref("item_mut", r.node, <<>>)})
            /\ op' = Call("iter_mut_next", 0, Some(elem[r.node]), r.node)
  /\ UNCHANGED <<head, tail, elem, next, status, owner, pushed, popped, written, into>>
  /\ UNCHANGED <<first, second, third, fourth>>

\* List::into_iter
IntoIter ==
  /\ owner = "list"
  /\ refs = EmptyBag
  /\ owner' = "into_iter"
  /\ into' = [snap |-> Contents, out |-> <<>>]
  /\ op' = Call("into_iter", 0, None, NULL)
  /\ UNCHANGED <<head, tail, elem, next, status, refs, pushed, popped, written>>
  /\ UNCHANGED <<first, second, third, fourth>>

\* IntoIter::next returning the head element without popping it.
IntoIterNextPeeks ==
  /\ owner = "into_iter"
  /\ Len(into.out) < MaxNodes + 2
  /\ LET ret == IF head = NULL THEN None ELSE Some(elem[head]) IN
       /\ into' = [into EXCEPT !.out = Append(@, ret)]
       /\ op' = Call("into_iter_next", 0, ret, head)
  /\ UNCHANGED <<head, tail, elem, next, status, owner, refs, pushed, popped, written>>
  /\ UNCHANGED <<first, second, third, fourth>>

\* IntoIter::next
IntoIterNext ==
  /\ owner = "into_iter"
  /\ Len(into.out) < MaxNodes + 2
  /\ LET r == PopOf(head, tail, status) IN
       /\ head' = r.head
       /\ tail' = r.tail
       /\ status' = r.status
       /\ popped' = IF r.ret = None THEN popped ELSE Append(popped, Reclaim(r, "into_iter"))
       /\ into' = [into EXCEPT !.out = Append(@, r.ret)]
       /\ op' = Call("into_iter_next", 0, r.ret, r.node)
  /\ UNCHANGED <<elem, next, owner, refs, pushed, written>>
  /\ UNCHANGED <<first, second, third, fourth>>

\* The loop of Drop::drop, while let Some(_) = self.pop() {}: the fields,
\* the nodes' state and the reclaim history when pop has returned None.
RECURSIVE DropLoop(_, _, _, _)
DropLoop(h, t, st, log) ==
  LET r == PopOf(h, t, st) IN
    IF r.ret = None
      THEN [head |-> r.head, tail |-> r.tail, status |-> r.status, popped |-> log]
      ELSE DropLoop(r.head, r.tail, r.status, Append(log, Reclaim(r, "drop")))

\* Drop::drop with if let in place of while let: one pop.
DropOnce ==
  /\ owner \in {"list", "into_iter"}
  /\ refs = EmptyBag
  /\ LET r == PopOf(head, tail, status) IN
       /\ head' = r.head
       /\ tail' = r.tail
       /\ status' = r.status
       /\ popped' = IF r.ret = None THEN popped ELSE Append(popped, Reclaim(r, "drop"))
       /\ op' = Call("drop", 0, None, NULL)
  /\ owner' = "dropped"
  /\ UNCHANGED <<elem, next, refs, pushed, written, into>>
  /\ UNCHANGED <<first, second, third, fourth>>

\* Drop for List: the list goes out of scope in the caller, or the IntoIter
\* that holds it does.
Drop ==
  /\ owner \in {"list", "into_iter"}
  /\ refs = EmptyBag
  /\ LET d == DropLoop(head, tail, status, popped) IN
       /\ head' = d.head
       /\ tail' = d.tail
       /\ status' = d.status
       /\ popped' = d.popped
       /\ op' = Call("drop", 0, None, NULL)
  /\ owner' = "dropped"
  /\ UNCHANGED <<elem, next, refs, pushed, written, into>>
  /\ UNCHANGED <<first, second, third, fourth>>

Next ==
  \/ \E x \in Values : Push(x)
  \/ \E x \in Values : PushAbort(x)
  \/ Pop
  \/ Peek
  \/ PeekMut
  \/ \E r \in BagToSet(refs), v \in Values : Write(r, v)
  \/ \E r \in BagToSet(refs) : Release(r)
  \/ Iter
  \/ IterMut
  \/ \E r \in BagToSet(refs) : IterNext(r)
  \/ \E r \in BagToSet(refs) : IterMutNext(r)
  \/ IntoIter
  \/ IntoIterNext
  \/ Drop

Spec == Init /\ [][Next]_vars

(***************************************************************************)
(* The doubly-linked list of src/src/fourth.rs.                            *)
(*                                                                         *)
(* A Link is Option<Rc<RefCell<Node>>>: a node number or NULL.  The strong *)
(* count of a node is not stored: it is the number of Links that hold the  *)
(* node (head, tail, the next and prev of the nodes not yet released),     *)
(* plus the local variables of the running method, which each method       *)
(* accounts for itself.  push_front, push_back, pop_front and pop_back     *)
(* take &mut self and the peeks &self; the Ref and RefMut guards the peeks *)
(* return are temporaries of the calling statement, as in the tests, and   *)
(* peek_mut_front and peek_mut_back are modelled together with the         *)
(* assignment made through the guard.                                      *)
(***************************************************************************)

\* Rc::strong_count of node n, the locals of a running method not counted.
Fourth_Strong(f, n) ==
  (IF f.head = n THEN 1 ELSE 0) + (IF f.tail = n THEN 1 ELSE 0)
    + Cardinality({m \in Nodes : f.status[m] = "live" /\ f.next[m] = n})
    + Cardinality({m \in Nodes : f.status[m] = "live" /\ f.prev[m] = n})

\* An Rc to node n that is held in no Link has been dropped: when no strong
\* reference is left the Node is dropped, and its next and prev with it.
RECURSIVE Fourth_Released(_, _)
Fourth_Released(f, n) ==
  IF n = NULL \/ f.status[n] # "live" \/ Fourth_Strong(f, n) > 0
    THEN f
    ELSE LET g == [f EXCEPT !.status[n] = "released", !.next[n] = NULL, !.prev[n] = NULL]
         IN Fourth_Released(Fourth_Released(g, f.next[n]), f.prev[n])

\* The nodes reached from n by following next, at most k of them.
RECURSIVE Fourth_ChainFrom(_, _, _)
Fourth_ChainFrom(f, n, k) ==
  IF n = NULL \/ k = 0 THEN <<>> ELSE <<n>> \o Fourth_ChainFrom(f, f.next[n], k - 1)

\* The elements from head to tail along next.
Fourth_Contents(f) ==
  LET c == Fourth_ChainFrom(f, f.head, MaxNodes + 1) IN [i \in 1..Len(c) |-> f.elem[c[i]]]

\* Node::new and Rc::new(RefCell::new(..)) of push_front and push_back.
Fourth_Node_new(f, x) ==
  LET n == f.allocated + 1 IN
    [f EXCEPT !.allocated = n, !.status[n] = "live", !.elem[n] = x,
              !.next[n] = NULL, !.prev[n] = NULL]

\* List::push_front with the new node's next left None.
Fourth_push_front_unlinked(f, x) ==
  LET new_node == f.allocated + 1
      f1 == Fourth_Node_new(f, x)
      old_head == f1.head
      f2 == IF old_head # NULL THEN [f1 EXCEPT !.prev[old_head] = new_node] ELSE f1
      f3 == [f2 EXCEPT !.head = new_node]
  IN IF f3.tail = NULL THEN [f3 EXCEPT !.tail = f3.head] ELSE f3

\* The body of List::push_front.
Fourth_push_front_of(f, x) ==
  LET new_node == f.allocated + 1
      f1 == Fourth_Node_new(f, x)
      old_head == f1.head
      f2 == IF old_head # NULL THEN [f1 EXCEPT !.prev[old_head] = new_node] ELSE f1
      f3 == [f2 EXCEPT !.next[new_node] = old_head]
      f4 == [f3 EXCEPT !.head = new_node]
  IN IF f4.tail = NULL THEN [f4 EXCEPT !.tail = f4.head] ELSE f4

\* List::push_back without new_node.prev = old_tail.
Fourth_push_back_no_prev(f, x) ==
  IF f.tail = NULL
    THEN Fourth_push_front_of(f, x)
    ELSE LET new_node == f.allocated + 1
             f1 == Fourth_Node_new(f, x)
             old_tail == f1.tail
             f2 == [f1 EXCEPT !.next[old_tail] = new_node]
         IN [f2 EXCEPT !.tail = new_node]

\* The body of List::push_back.
Fourth_push_back_of(f, x) ==
  IF f.tail = NULL
    THEN Fourth_push_front_of(f, x)
    ELSE LET new_node == f.allocated + 1
             f1 == Fourth_Node_new(f, x)
             old_tail == f1.tail
             f2 == [f1 EXCEPT !.next[old_tail] = new_node]
             f3 == [f2 EXCEPT !.prev[new_node] = old_tail]
         IN [f3 EXCEPT !.tail = new_node]

\* Rc::try_unwrap(node).unwrap().into_inner().elem at the end of a pop: node
\* is the local Rc; with no other strong reference the element is returned
\* and the rest of the Node dropped, otherwise unwrap panics.
Fourth_unwrap(f, node) ==
  IF Fourth_Strong(f, node) = 0
    THEN [list |-> Fourth_Released(f, node), ret |-> Some(f.elem[node]), node |-> node]
    ELSE [list |-> [f EXCEPT !.owner = "panicked"], ret |-> None, node |-> node]

\* List::pop_front without the reset of tail when the last node goes.
Fourth_pop_front_keeps_tail(f) ==
  LET node == f.head IN
    IF node = NULL
      THEN [list |-> f, ret |-> None, node |-> NULL]
      ELSE LET next_node == f.next[node]
               f1 == [f EXCEPT !.head = NULL, !.next[node] = NULL]
               f2 == IF next_node # NULL THEN [f1 EXCEPT !.prev[next_node] = NULL] ELSE f1
               f3 == [f2 EXCEPT !.head = next_node]
           IN Fourth_unwrap(f3, node)

\* The body of List::pop_front.
Fourth_pop_front_of(f) ==
  LET node == f.head IN
    IF node = NULL
      THEN [list |-> f, ret |-> None, node |-> NULL]
      ELSE LET next_node == f.next[node]
               f1 == [f EXCEPT !.head = NULL, !.next[node] = NULL]
               f2 == IF next_node # NULL THEN [f1 EXCEPT !.prev[next_node] = NULL] ELSE f1
               f3 == [f2 EXCEPT !.head = next_node]
               f4 == IF f3.head = NULL THEN Fourth_Released([f3 EXCEPT !.tail = NULL], IF f3.tail = node THEN NULL ELSE f3.tail) ELSE f3
           IN Fourth_unwrap(f4, node)

\* The body of List::pop_back.
Fourth_pop_back_of(f) ==
  LET node == f.tail IN
    IF node = NULL
      THEN [list |-> f, ret |-> None, node |-> NULL]
      ELSE LET prev_node == f.prev[node]
               f1 == [f EXCEPT !.tail = NULL, !.prev[node] = NULL]
               f2 == IF prev_node # NULL THEN [f1 EXCEPT !.next[prev_node] = NULL] ELSE f1
               f3 == [f2 EXCEPT !.tail = prev_node]
               f4 == IF f3.tail = NULL THEN Fourth_Released([f3 EXCEPT !.head = NULL], IF f3.head = node THEN NULL ELSE f3.head) ELSE f3
           IN Fourth_unwrap(f4, node)

\* The loop of Drop::drop: curr is the local Option<Rc<..>>.
RECURSIVE Fourth_drop_loop(_, _)
Fourth_drop_loop(f, curr) ==
  IF curr = NULL
    THEN f
    ELSE IF Fourth_Strong(f, curr) = 0
      THEN LET prev_node == f.prev[curr]
               f1 == Fourth_Released([f EXCEPT !.prev[curr] = NULL], prev_node)
               next_node == f1.next[curr]
           IN Fourth_drop_loop([f1 EXCEPT !.next[curr] = NULL, !.status[curr] = "released"],
                               next_node)
      ELSE f

\* The body of Drop::drop.
Fourth_drop_of(f) ==
  LET f1 == Fourth_Released([f EXCEPT !.tail = NULL], f.tail)
      curr == f1.head
  IN Fourth_drop_loop([f1 EXCEPT !.head = NULL], curr)

\* List::push_front
Fourth_push_front(x) ==
  /\ fourth.owner = "list"
  /\ fourth.allocated < MaxNodes
  /\ fourth' = Fourth_push_front_of(fourth, x)
  /\ op' = Call("push_front", x, None, fourth.allocated + 1)
  /\ UNCHANGED <<fifth, first, second, third>>

\* List::push_back
Fourth_push_back(x) ==
  /\ fourth.owner = "list"
  /\ fourth.allocated < MaxNodes
  /\ fourth' = Fourth_push_back_of(fourth, x)
  /\ op' = Call("push_back", x, None, fourth.allocated + 1)
  /\ UNCHANGED <<fifth, first, second, third>>

\* List::pop_front
Fourth_pop_front ==
  /\ fourth.owner = "list"
  /\ LET r == Fourth_pop_front_of(fourth) IN
       /\ fourth' = r.list
       /\ op' = Call("pop_front", 0, r.ret, r.node)
  /\ UNCHANGED <<fifth, first, second, third>>

\* List::pop_back
Fourth_pop_back ==
  /\ fourth.owner = "list"
  /\ LET r == Fourth_pop_back_of(fourth) IN
       /\ fourth' = r.list
       /\ op' = Call("pop_back", 0, r.ret, r.node)
  /\ UNCHANGED <<fifth, first, second, third>>

\* List::peek_front, the Ref dropped at the end of the caller's statement.
Fourth_peek_front ==
  /\ fourth.owner = "list"
  /\ op' = IF fourth.head = NULL
             THEN Call("peek_front", 0, None, NULL)
             ELSE Call("peek_front", 0, Some(fourth.elem[fourth.head]), fourth.head)
  /\ UNCHANGED <<fifth, first, second, third, fourth>>

\* List::peek_back, the Ref dropped at the end of the caller's statement.
Fourth_peek_back ==
  /\ fourth.owner = "list"
  /\ op' = IF fourth.tail = NULL
             THEN Call("peek_back", 0, None, NULL)
             ELSE Call("peek_back", 0, Some(fourth.elem[fourth.tail]), fourth.tail)
  /\ UNCHANGED <<fifth, first, second, third, fourth>>

\* list.peek_mut_front().map(|mut e| *e = v)
Fourth_peek_mut_front(v) ==
  /\ fourth.owner = "list"
  /\ IF fourth.head = NULL
       THEN /\ fourth' = fourth
            /\ op' = Call("peek_mut_front", v, None, NULL)
       ELSE /\ fourth' = [fourth EXCEPT !.elem[fourth.head] = v]
            /\ op' = Call("peek_mut_front", v, Some(fourth.elem[fourth.head]), fourth.head)
  /\ UNCHANGED <<fifth, first, second, third>>

\* list.peek_mut_back().map(|mut e| *e = v)
Fourth_peek_mut_back(v) ==
  /\ fourth.owner = "list"
  /\ IF fourth.tail = NULL
       THEN /\ fourth' = fourth
            /\ op' = Call("peek_mut_back", v, None, NULL)
       ELSE /\ fourth' = [fourth EXCEPT !.elem[fourth.tail] = v]
            /\ op' = Call("peek_mut_back", v, Some(fourth.elem[fourth.tail]), fourth.tail)
  /\ UNCHANGED <<fifth, first, second, third>>

\* Drop::drop of the List
Fourth_drop ==
  /\ fourth.owner = "list"
  /\ fourth' = [Fourth_drop_of(fourth) EXCEPT !.owner = "dropped"]
  /\ op' = Call("drop", 0, None, NULL)
  /\ UNCHANGED <<fifth, first, second, third>>

NextFourth ==
  \/ \E x \in Values : Fourth_push_front(x)
  \/ \E x \in Values : Fourth_push_back(x)
  \/ Fourth_pop_front
  \/ Fourth_pop_back
  \/ Fourth_peek_front
  \/ Fourth_peek_back
  \/ \E v \in Values : Fourth_peek_mut_front(v)
  \/ \E v \in Values : Fourth_peek_mut_back(v)
  \/ Fourth_drop

SpecFourth == InitFourth /\ [][NextFourth]_vars

(***************************************************************************)
(* The stacks of src/src/first.rs and src/src/second.rs: push, pop, and    *)
(* for second.rs is_empty, len and insert_at.  A node is owned by the      *)
(* Box in head or in the next of the node before it, and is freed when     *)
(* that Box is dropped.  The two lists share nothing, so a run uses one of *)
(* them: a call on one is taken while the other is as List::new made it.   *)
(***************************************************************************)

\* The elements from node n along next, at most k of them.
RECURSIVE Stack_From(_, _, _)
Stack_From(l, n, k) ==
  IF n = NULL \/ k = 0 THEN <<>> ELSE <<l.elem[n]>> \o Stack_From(l, l.next[n], k - 1)

\* The elements of a list of first.rs or second.rs from head on.
Stack_Contents(l) == Stack_From(l, l.head, MaxNodes + 1)

\* first.rs, the body of List::push storing the old head nowhere.
First_push_drops_rest(l, x) ==
  LET new_node == l.allocated + 1 IN
    [l EXCEPT !.allocated = new_node, !.status[new_node] = "live",
              !.elem[new_node] = x, !.next[new_node] = NULL, !.head = new_node]

\* first.rs, the body of List::push.
First_push_of(l, x) ==
  LET new_node == l.allocated + 1
      l1 == [l EXCEPT !.allocated = new_node, !.elem[new_node] = x, !.next[new_node] = NULL]
      old_head == l1.head
      l2 == [l1 EXCEPT !.head = NULL]
      l3 == [l2 EXCEPT !.next[new_node] = old_head]
  IN [l3 EXCEPT !.head = new_node, !.status[new_node] = "live"]

\* first.rs, the body of List::pop.
First_pop_of(l) ==
  LET old_head == l.head
      l1 == [l EXCEPT !.head = NULL]
  IN IF old_head = NULL
       THEN [list |-> l1, ret |-> None, node |-> NULL]
       ELSE [list |-> [l1 EXCEPT !.head = l.next[old_head], !.status[old_head] = "freed"],
             ret |-> Some(l.elem[old_head]),
             node |-> old_head]

\* first.rs, List::push
First_push(x) ==
  /\ second = Second_new
  /\ first.allocated < MaxNodes
  /\ first' = First_push_of(first, x)
  /\ op' = Call("first.push", x, None, first.allocated + 1)
  /\ UNCHANGED <<fifth, second, third, fourth>>

\* first.rs, List::pop
First_pop ==
  /\ second = Second_new
  /\ LET r == First_pop_of(first) IN
       /\ first' = r.list
       /\ op' = Call("first.pop", 0, r.ret, r.node)
  /\ UNCHANGED <<fifth, second, third, fourth>>

\* second.rs, List::is_empty
Second_is_empty_of(l) == l.head = NULL

\* second.rs, the loop of List::len from curr on with len counted so far.
RECURSIVE Second_len_loop(_, _, _)
Second_len_loop(l, curr, len) ==
  IF curr = NULL \/ len > MaxNodes THEN len ELSE Second_len_loop(l, l.next[curr], len + 1)

\* second.rs, the body of List::len.
Second_len_of(l) == Second_len_loop(l, l.head, 0)

\* second.rs, the body of List::push.
Second_push_of(l, x) ==
  LET new_node == l.allocated + 1
      l1 == [l EXCEPT !.allocated = new_node, !.elem[new_node] = x, !.next[new_node] = NULL]
      old_head == l1.head
      l2 == [l1 EXCEPT !.head = NULL]
      l3 == [l2 EXCEPT !.next[new_node] = old_head]
  IN [l3 EXCEPT !.head = new_node, !.status[new_node] = "live"]

\* second.rs, the body of List::pop.
Second_pop_of(l) ==
  LET node == l.head
      l1 == [l EXCEPT !.head = NULL]
  IN IF node = NULL
       THEN [list |-> l1, ret |-> None, node |-> NULL]
       ELSE [list |-> [l1 EXCEPT !.head = l.next[node], !.status[node] = "freed"],
             ret |-> Some(l.elem[node]),
             node |-> node]

\* Result<(), usize>
Ok == <<"Ok">>
Err(i) == <<"Err", i>>

\* A call of insert_at: as Call, with the index.
CallAt(name, index, arg, ret, node) ==
  [name |-> name, index |-> index, arg |-> arg, ret |-> ret, node |-> node]

\* second.rs, the for loop of List::insert_at, about to run iteration i with
\* curr_head at curr: where curr_head is after the loop, or the i at which
\* curr_head.ok_or(i)? returned.
RECURSIVE Second_insert_at_loop(_, _, _, _)
Second_insert_at_loop(l, curr, i, index) ==
  IF i >= index
    THEN [err |-> FALSE, curr |-> curr, i |-> i]
    ELSE IF curr = NULL
      THEN [err |-> TRUE, curr |-> NULL, i |-> i]
      ELSE Second_insert_at_loop(l, l.next[curr], i + 1, index)

\* second.rs, the body of List::insert_at with the loop running 0..index.
Second_insert_at_late(l, index, x) ==
  IF index = 0
    THEN [list |-> Second_push_of(l, x), ret |-> Ok, node |-> l.allocated + 1]
    ELSE LET w == Second_insert_at_loop(l, l.head, 0, index) IN
      IF w.err
        THEN [list |-> l, ret |-> Err(w.i), node |-> NULL]
        ELSE IF w.curr = NULL
          THEN [list |-> l, ret |-> Err(index), node |-> NULL]
          ELSE LET new_node == l.allocated + 1
                   node_next == l.next[w.curr]
               IN [list |-> [l EXCEPT !.allocated = new_node, !.status[new_node] = "live",
                                      !.elem[new_node] = x, !.next[new_node] = node_next,
                                      !.next[w.curr] = new_node],
                   ret |-> Ok,
                   node |-> new_node]

\* second.rs, the body of List::insert_at.
Second_insert_at_of(l, index, x) ==
  IF index = 0
    THEN [list |-> Second_push_of(l, x), ret |-> Ok, node |-> l.allocated + 1]
    ELSE LET w == Second_insert_at_loop(l, l.head, 1, index) IN
      IF w.err
        THEN [list |-> l, ret |-> Err(w.i), node |-> NULL]
        ELSE IF w.curr = NULL
          THEN [list |-> l, ret |-> Err(index), node |-> NULL]
          ELSE LET new_node == l.allocated + 1
                   node_next == l.next[w.curr]
               IN [list |-> [l EXCEPT !.allocated = new_node, !.status[new_node] = "live",
                                      !.elem[new_node] = x, !.next[new_node] = node_next,
                                      !.next[w.curr] = new_node],
                   ret |-> Ok,
                   node |-> new_node]

\* The indexes insert_at is called with: every position of a list that holds
\* up to MaxNodes elements, and two beyond.
Indexes == 0..(MaxNodes + 1)

\* second.rs, List::push
Second_push(x) ==
  /\ first = First_new
  /\ second.allocated < MaxNodes
  /\ second' = [Second_push_of(second, x) EXCEPT !.pushes = @ + 1]
  /\ op' = Call("second.push", x, None, second.allocated + 1)
  /\ UNCHANGED <<fifth, first, third, fourth>>

\* second.rs, List::pop
Second_pop ==
  /\ first = First_new
  /\ LET r == Second_pop_of(second) IN
       /\ second' = [r.list EXCEPT !.pops = IF r.ret = None THEN @ ELSE @ + 1]
       /\ op' = Call("second.pop", 0, r.ret, r.node)
  /\ UNCHANGED <<fifth, first, third, fourth>>

\* second.rs, List::insert_at
Second_insert_at(index, x) ==
  /\ first = First_new
  /\ second.allocated < MaxNodes
  /\ LET r == Second_insert_at_of(second, index, x) IN
       /\ second' = [r.list EXCEPT !.inserts = IF r.ret = Ok THEN @ + 1 ELSE @]
       /\ op' = CallAt("second.insert_at", index, x, r.ret, r.node)
  /\ UNCHANGED <<fifth, first, third, fourth>>

\* second.rs, List::len
Second_len ==
  /\ first = First_new
  /\ op' = Call("second.len", 0, Second_len_of(second), NULL)
  /\ UNCHANGED <<fifth, first, second, third, fourth>>

\* second.rs, List::is_empty
Second_is_empty ==
  /\ first = First_new
  /\ op' = Call("second.is_empty", 0, Second_is_empty_of(second), NULL)
  /\ UNCHANGED <<fifth, first, second, third, fourth>>

NextStack ==
  \/ \E x \in Values : First_push(x)
  \/ First_pop
  \/ \E x \in Values : Second_push(x)
  \/ Second_pop
  \/ \E index \in Indexes, x \in Values : Second_insert_at(index, x)
  \/ Second_len
  \/ Second_is_empty

SpecStack == InitStack /\ [][NextStack]_vars

(***************************************************************************)
(* The persistent list of src/src/third.rs.  The Lists of a run share one  *)
(* heap of Rc<Node>; the strong count of a node is the number of places    *)
(* that hold it: the head of a live List and the next of a node not yet    *)
(* freed.  prepend and tail take &self and return a new List.              *)
(***************************************************************************)

\* A call on list l, its argument, its result and the List it returned.
CallOn(name, l, arg, ret, made) ==
  [name |-> name, list |-> l, arg |-> arg, ret |-> ret, made |-> made]

\* Rc::strong_count of node n, the locals of a running method not counted.
Third_Strong(t, n) ==
  Cardinality({l \in Lists : t.lists[l].state = "live" /\ t.lists[l].head = n})
    + Cardinality({m \in Nodes : t.status[m] = "live" /\ t.next[m] = n})

\* The elements from node n along next, at most k of them.
RECURSIVE Third_From(_, _, _)
Third_From(t, n, k) ==
  IF n = NULL \/ k = 0 THEN <<>> ELSE <<t.elem[n]>> \o Third_From(t, t.next[n], k - 1)

\* The elements of list l from its head on.
Third_Elems(t, l) == Third_From(t, t.lists[l].head, MaxNodes + 1)

\* The loop of List::len from curr on with len counted so far.
RECURSIVE Third_len_loop(_, _, _)
Third_len_loop(t, curr, len) ==
  IF curr = NULL \/ len > MaxNodes THEN len ELSE Third_len_loop(t, t.next[curr], len + 1)

\* List::len
Third_len_of(t, l) == Third_len_loop(t, t.lists[l].head, 0)

\* List::is_empty
Third_is_empty_of(t, l) == t.lists[l].head = NULL

\* List::head
Third_head_of(t, l) ==
  IF t.lists[l].head = NULL THEN None ELSE Some(t.elem[t.lists[l].head])

\* List::prepend that also makes the new node the head of the list it is
\* called on.
Third_prepend_in_place(t, l, x) ==
  LET new_node == t.allocated + 1
      made == t.made + 1
  IN [t EXCEPT !.allocated = new_node, !.status[new_node] = "live",
               !.elem[new_node] = x, !.next[new_node] = t.lists[l].head,
               !.lists[l].head = new_node,
               !.lists[made] = [state |-> "live", head |-> new_node,
                                origin |-> Origin("prepend", l, x)],
               !.made = made]

\* The body of List::prepend: the heap and the Lists with the one returned.
Third_prepend_of(t, l, x) ==
  LET new_node == t.allocated + 1
      made == t.made + 1
  IN [t EXCEPT !.allocated = new_node, !.status[new_node] = "live",
               !.elem[new_node] = x, !.next[new_node] = t.lists[l].head,
               !.lists[made] = [state |-> "live", head |-> new_node,
                                origin |-> Origin("prepend", l, x)],
               !.made = made]

\* The body of List::tail: the Lists with the one returned.
Third_tail_of(t, l) ==
  LET made == t.made + 1
      new_head == IF t.lists[l].head = NULL THEN NULL ELSE t.next[t.lists[l].head]
  IN [t EXCEPT !.lists[made] = [state |-> "live", head |-> new_head,
                                origin |-> Origin("tail", l, 0)],
               !.made = made]

\* The loop of Drop::drop taking every node whatever its strong count.
RECURSIVE Third_drop_loop_all(_, _)
Third_drop_loop_all(t, curr) ==
  IF curr = NULL
    THEN t
    ELSE Third_drop_loop_all([t EXCEPT !.status[curr] = "freed", !.next[curr] = NULL],
                             t.next[curr])

\* The loop of Drop::drop: curr is the local Option<Rc<Node>>.  try_unwrap
\* gives the Node when curr is its only strong reference; otherwise ok()
\* drops the Rc and the loop ends.
RECURSIVE Third_drop_loop(_, _)
Third_drop_loop(t, curr) ==
  IF curr = NULL
    THEN t
    ELSE IF Third_Strong(t, curr) = 0
      THEN Third_drop_loop([t EXCEPT !.status[curr] = "freed", !.next[curr] = NULL],
                           t.next[curr])
      ELSE t

\* The body of Drop::drop on list l.
Third_drop_of(t, l) ==
  LET curr == t.lists[l].head
  IN Third_drop_loop([t EXCEPT !.lists[l].head = NULL, !.lists[l].state = "dropped"], curr)

\* List::prepend
Third_prepend(l, x) ==
  /\ third.lists[l].state = "live"
  /\ third.allocated < MaxNodes
  /\ third.made < MaxLists
  /\ third' = Third_prepend_of(third, l, x)
  /\ op' = CallOn("prepend", l, x, None, third.made + 1)
  /\ UNCHANGED <<fifth, first, second, fourth>>

\* List::tail
Third_tail(l) ==
  /\ third.lists[l].state = "live"
  /\ third.made < MaxLists
  /\ third' = Third_tail_of(third, l)
  /\ op' = CallOn("tail", l, 0, None, third.made + 1)
  /\ UNCHANGED <<fifth, first, second, fourth>>

\* List::head
Third_head(l) ==
  /\ third.lists[l].state = "live"
  /\ op' = CallOn("head", l, 0, Third_head_of(third, l), 0)
  /\ UNCHANGED <<fifth, first, second, third, fourth>>

\* List::len
Third_len(l) ==
  /\ third.lists[l].state = "live"
  /\ op' = CallOn("len", l, 0, Third_len_of(third, l), 0)
  /\ UNCHANGED <<fifth, first, second, third, fourth>>

\* List::is_empty
Third_is_empty(l) ==
  /\ third.lists[l].state = "live"
  /\ op' = CallOn("is_empty", l, 0, Third_is_empty_of(third, l), 0)
  /\ UNCHANGED <<fifth, first, second, third, fourth>>

\* Drop::drop of list l
Third_drop(l) ==
  /\ third.lists[l].state = "live"
  /\ third' = Third_drop_of(third, l)
  /\ op' = CallOn("drop", l, 0, None, 0)
  /\ UNCHANGED <<fifth, first, second, fourth>>

NextThird ==
  \/ \E l \in Lists, x \in Values : Third_prepend(l, x)
  \/ \E l \in Lists : Third_tail(l)
  \/ \E l \in Lists : Third_head(l)
  \/ \E l \in Lists : Third_len(l)
  \/ \E l \in Lists : Third_is_empty(l)
  \/ \E l \in Lists : Third_drop(l)

SpecThird == InitThird /\ [][NextThird]_vars

(***************************************************************************)
(* The claims.                                                             *)
(***************************************************************************)

Range(q) == {q[i] : i \in 1..Len(q)}

\* The reclaim records a run of pops adds for the nodes of chain c.
Reclaimed(c, by) == [i \in 1..Len(c) |-> [node |-> c[i], val |-> elem[c[i]], by |-> by]]

\* C1: the k-th pop that returns a value returns the k-th pushed element
\* (the k-th node allocated, holding the value pushed into it as long as no
\* element was assigned through a mutable reference), and a pop returns None
\* exactly when as many values were popped as were pushed.
C1_PopsInPushOrder ==
  \A k \in 1..Len(popped) :
    /\ k <= Len(pushed)
    /\ popped[k].node = k
    /\ ~written => popped[k].val = pushed[k]

C1_NoneIffDrained ==
  (op'.name = "pop") => ((op'.ret = None) <=> (Len(pushed) = Len(popped)))

C1_Fifo == [](C1_PopsInPushOrder) /\ [][C1_NoneIffDrained]_vars

\* push 1, 2, 1 then four pops: 1, 2, 1, None.
C1_Witness ==
  /\ pushed = <<1, 2, 1>>
  /\ [k \in 1..Len(popped) |-> popped[k].val] = <<1, 2, 1>>
  /\ \A k \in 1..Len(popped) : popped[k].by = "pop"
  /\ op.name = "pop"
  /\ op.ret = None

\* C2: on an empty queue pop, peek and peek_mut return None and change
\* nothing: head and tail stay null, no node is allocated or reclaimed, no
\* reference is handed out.
C2_EmptyStep ==
  (op'.name \in {"pop", "peek", "peek_mut"} /\ head = NULL) =>
    /\ op'.ret = None
    /\ head' = NULL
    /\ tail' = NULL
    /\ UNCHANGED <<elem, next, status, refs, pushed, popped>>

C2_EmptyAbsent == [][C2_EmptyStep]_vars

\* peek_mut returns None on a queue drained by pops.
C2_Witness ==
  /\ Len(popped) = 2
  /\ Len(pushed) = 2
  /\ owner = "list"
  /\ op.name = "peek_mut"
  /\ op.ret = None

\* C3: peek returns None on an empty queue and otherwise a reference to the
\* element of the node the next pop reclaims (the oldest node not yet popped,
\* holding x after push(x) onto an empty queue); peek changes neither the
\* chain nor an element, however often it is called.
C3_PeekStep ==
  (op'.name = "peek") =>
    /\ UNCHANGED <<head, tail, elem, next, status, pushed, popped>>
    /\ IF Len(pushed) = Len(popped)
         THEN op'.ret = None /\ refs' = refs
         ELSE /\ op'.node = Len(popped) + 1
              /\ op'.ret = Some(elem[op'.node])
              /\ ~written => op'.ret = Some(pushed[Len(popped) + 1])
              /\ refs' = refs (+) SetToBag({Ref("peek", op'.node, <<>>)})

C3_PeekHead == [][C3_PeekStep]_vars

\* Two peeks in a row on a queue of two elements, after one pop.
C3_Witness ==
  /\ op.name = "peek"
  /\ op.node = 2
  /\ Len(pushed) = 3
  /\ CopiesIn(Ref("peek", 2, <<>>), refs) = 2

\* C4: a value assigned through the reference peek_mut returned replaces the
\* head element in place (no other element, link or field changes) and is
\* what a peek made right after the assignment returns.
C4_WriteStep ==
  (op'.name = "write_peek_mut") =>
    /\ op'.node = head
    /\ elem' = [elem EXCEPT ![head] = op'.arg]
    /\ UNCHANGED <<head, tail, next, status, pushed, popped>>

C4_PeekAfterWrite ==
  (op.name = "write_peek_mut" /\ op'.name = "peek") => op'.ret = Some(op.arg)

C5_IntoIterDrains ==
  (owner = "into_iter") =>
    LET n == Len(into.snap)
        k == Len(into.out)
        taken == {i \in 1..Len(popped) : popped[i].by = "into_iter"}
    IN /\ \A i \in 1..k : into.out[i] = IF i <= n THEN Some(into.snap[i]) ELSE None
       /\ Cardinality(taken) = IF k <= n THEN k ELSE n
       /\ Cardinality(Live) = IF k <= n THEN n - k ELSE 0
       /\ k > n => head = NULL /\ tail = NULL

\* Three elements taken in order, then None twice.
C5_Witness ==
  /\ owner = "into_iter"
  /\ into.snap = <<1, 2, 2>>
  /\ into.out = <<Some(1), Some(2), Some(2), None, None>>

\* C6: an Iter of a queue whose chain is n1..nk yields references to the
\* elements of n1..nk in that order and then None; creating and stepping it
\* change no field, node or history of the queue, so a pop made afterwards
\* reclaims n1 and a new Iter starts at n1 again.
C6_IterOrder ==
  \A r \in BagToSet(refs) :
    r.kind = "iter" => r.seen \o ChainFrom(r.node, MaxNodes + 1) = Chain

C6_IterStep ==
  /\ (op'.name \in {"iter", "iter_next"}) =>
       UNCHANGED <<head, tail, elem, next, status, owner, pushed, popped, written>>
  /\ (op'.name = "iter") => refs' = refs (+) SetToBag({Ref("iter", head, <<>>)})
  /\ (op'.name = "iter_next") =>
       \E r \in BagToSet(refs) :
         /\ r.kind = "iter"
         /\ IF Len(r.seen) = Len(Chain)
              THEN op'.ret = None /\ refs' = refs
              ELSE /\ op'.node = Chain[Len(r.seen) + 1]
                   /\ op'.ret = Some(elem[op'.node])
                   /\ BagIn(Ref("item", op'.node, <<>>), refs')

C6_IterReadOnly == [](C6_IterOrder) /\ [][C6_IterStep]_vars

\* An Iter over three elements has yielded all three and returned None.
C6_Witness ==
  /\ Len(Chain) = 3
  /\ op.name = "iter_next"
  /\ op.ret = None
  /\ BagIn(Ref("iter", NULL, Chain), refs)

\* C7: an IterMut of a queue whose chain is n1..nk yields an exclusive
\* reference to the element of each of n1..nk once, in that order, then None;
\* a value assigned through a yielded reference replaces that element and
\* nothing else, so assigning f(e) through every one leaves f(e1)..f(ek).
C7_ItemsExclusive ==
  \A r \in BagToSet(refs) : r.kind = "item_mut" => ~Aliased(r)

C7_IterMutOrder ==
  \A r \in BagToSet(refs) :
    r.kind = "iter_mut" => r.seen \o ChainFrom(r.node, MaxNodes + 1) = Chain

C7_WriteStep ==
  (op'.name = "write_item_mut") =>
    /\ elem' = [elem EXCEPT ![op'.node] = op'.arg]
    /\ UNCHANGED <<head, tail, next, status, pushed, popped>>

C7_IterMutMaps ==
  [](C7_ItemsExclusive /\ C7_IterMutOrder) /\ [][C7_WriteStep]_vars

\* C8: drop reclaims the live nodes, which are the nodes of the chain, each
\* once and from head to tail, and leaves head and tail null; on an empty
\* queue it reclaims nothing and changes nothing; the same holds when the
\* list is dropped inside an IntoIter that has yielded only some elements.
C8_DropStep ==
  (op'.name = "drop") =>
    /\ Range(Chain) = Live
    /\ Len(Chain) = Cardinality(Live)
    /\ popped' = popped \o Reclaimed(Chain, "drop")
    /\ status' = [n \in Nodes |-> IF n \in Live THEN "reclaimed" ELSE status[n]]
    /\ head' = NULL
    /\ tail' = NULL
    /\ UNCHANGED <<elem, next>>
    /\ head = NULL => UNCHANGED <<head, tail, status, popped>>

C8_DropReclaimsAll == [][C8_DropStep]_vars

\* An IntoIter over three elements dropped after one next(): drop reclaims two.
C8_Witness ==
  /\ op.name = "drop"
  /\ Len(into.snap) = 3
  /\ Len(into.out) = 1
  /\ Cardinality({i \in 1..Len(popped) : popped[i].by = "drop"}) = 2
  /\ Live = {}

\* C9: a node goes unallocated -> live -> reclaimed and never back; it is
\* reclaimed at most once; it becomes live only in push and reclaimed only in
\* pop (called directly or by IntoIter::next) or in drop, never in peek,
\* peek_mut, iter, iter_mut or an iterator's next.
C9_ReclaimedOnce ==
  /\ \A i, j \in 1..Len(popped) : i # j => popped[i].node # popped[j].node
  /\ \A n \in Nodes : status[n] = "reclaimed" <=> \E i \in 1..Len(popped) : popped[i].node = n

C9_Step ==
  /\ \A n \in Nodes :
       /\ status[n] = "unallocated" => status'[n] \in {"unallocated", "live"}
       /\ status[n] = "live" => status'[n] \in {"live", "reclaimed"}
       /\ status[n] = "reclaimed" => status'[n] = "reclaimed"
       /\ (status[n] = "unallocated" /\ status'[n] = "live") => op'.name = "push"
       /\ (status[n] = "live" /\ status'[n] = "reclaimed") =>
            op'.name \in {"pop", "into_iter_next", "drop"}
  /\ Len(popped') - Len(popped) =
       Cardinality({n \in Nodes : status[n] = "live" /\ status'[n] = "reclaimed"})

C9_NodeLifecycle == [](C9_ReclaimedOnce) /\ [][C9_Step]_vars

\* An IterMut yields the element of the second node after the first was popped.
C9_Witness ==
  /\ status[1] = "reclaimed"
  /\ status[2] = "live"
  /\ op.name = "iter_mut_next"
  /\ op.node = 2

\* C10: no mutable reference to a node (the &mut T of peek_mut or of
\* IterMut::next, the &mut Node an IterMut holds) is live together with
\* another reference to the same node.
C10_NoMutableAlias ==
  \A r \in BagToSet(refs) : (Mutable(r) /\ r.node # NULL) => ~Aliased(r)

\* C11: every reference handed out by peek, peek_mut, iter or iter_mut, the
\* pointer of an Iter or IterMut and the references its next yields included,
\* refers to a live node; and while one of them is live no push, pop,
\* into_iter or drop takes place: head, tail, the links and the allocation
\* state of the nodes stay as they are.
C11_BorrowsLive ==
  \A r \in BagToSet(refs) : r.node # NULL => status[r.node] = "live"

C11_ExclusiveStep ==
  refs # EmptyBag =>
    /\ op'.name \notin {"push", "push_abort", "pop", "into_iter", "into_iter_next", "drop"}
    /\ UNCHANGED <<head, tail, next, status, owner>>

C11_NoDanglingBorrow == [](C11_BorrowsLive) /\ [][C11_ExclusiveStep]_vars

\* After a pop, an Iter that has yielded node 2 points at node 3 while a
\* &mut T from peek_mut is live on node 2.
C11_Witness ==
  /\ Len(popped) = 1
  /\ status[1] = "reclaimed"
  /\ refs = SetToBag({Ref("iter", 3, <<2>>), Ref("peek_mut", 2, <<>>)})

\* C12: while an Iter is live nothing of the queue changes: not head, tail,
\* the links or the allocation state of the nodes, and not the element of any
\* node.
C12_IterLive == \E r \in BagToSet(refs) : r.kind = "iter"

C12_FrozenStep ==
  C12_IterLive => UNCHANGED <<head, tail, next, status, elem>>

C12_IterFreezes == [][C12_FrozenStep]_vars

\* C13: a push whose allocation fails ends with head, tail, the links, the
\* elements and the allocation state of the nodes as they were before the
\* call, and nothing runs after it.
C13_AbortStep ==
  (op'.name = "push_abort") =>
    /\ UNCHANGED <<head, tail, elem, next, status, pushed, popped>>
    /\ owner' = "aborted"

C13_AfterAbort == owner = "aborted" => UNCHANGED vars

C13_PushAbortsClean == [][C13_AbortStep /\ C13_AfterAbort]_vars

\* A push of 2 fails on a queue that holds two elements after one was popped.
C13_Witness ==
  /\ op = Call("push_abort", 2, None, NULL)
  /\ owner = "aborted"
  /\ Len(pushed) = 3
  /\ Len(popped) = 1
  /\ Chain = <<2, 3>>
  /\ tail = 3

\* C14: push(x) appends one node holding x to the chain: the contents become
\* the old contents followed by x, the new node is tail and has no successor,
\* head stays (it becomes the new node when the queue was empty), and the
\* element of every node already on the chain stays.
C14_PushStep ==
  (op'.name = "push") =>
    /\ Chain' = Append(Chain, op'.node)
    /\ Contents' = Append(Contents, op'.arg)
    /\ Len(Chain') = Len(Chain) + 1
    /\ tail' = op'.node
    /\ next'[op'.node] = NULL
    /\ head' = IF Chain = <<>> THEN op'.node ELSE head
    /\ \A n \in Range(Chain) : elem'[n] = elem[n]
    /\ status[op'.node] = "unallocated"

C14_PushAppends == [][C14_PushStep]_vars

\* The third push, onto a queue that holds the second element only.
C14_Witness ==
  /\ op = Call("push", 1, None, 3)
  /\ Chain = <<2, 3>>
  /\ Contents = <<2, 1>>
  /\ head = 2
  /\ tail = 3
  /\ Len(popped) = 1

\* C19: head and tail are both null, or both refer to live nodes, the chain
\* from head ends at tail and tail has no successor.
C19_Shape ==
  \/ head = NULL /\ tail = NULL
  \/ /\ head \in Live
     /\ tail \in Live
     /\ Chain # <<>>
     /\ Chain[Len(Chain)] = tail
     /\ next[tail] = NULL

C19_PopLastStep ==
  (op'.name \in {"pop", "into_iter_next"} /\ head # NULL /\ head = tail) =>
    (head' = NULL /\ tail' = NULL)

C19_HeadTailShape ==
  [](C19_Shape /\ (head = NULL <=> tail = NULL)) /\ [][C19_PopLastStep]_vars

\* The pop of the only node of a queue that has held two.
C19_Witness ==
  /\ op = Call("pop", 0, Some(2), 2)
  /\ Len(popped) = 2
  /\ head = NULL
  /\ tail = NULL
  /\ owner = "list"

\* C20: the nodes of the chain from head are the live nodes, each once; head,
\* tail and the link of a live node are null or refer to a live node.
C20_ChainIsLive ==
  /\ Range(Chain) = Live
  /\ Len(Chain) = Cardinality(Live)
  /\ \A i, j \in 1..Len(Chain) : i # j => Chain[i] # Chain[j]

C20_NoDangling ==
  /\ head # NULL => head \in Live
  /\ tail # NULL => tail \in Live
  /\ \A n \in Live : next[n] # NULL => next[n] \in Live

C20_ChainExact == C20_ChainIsLive /\ C20_NoDangling

\* Two live nodes on the chain after the first node was reclaimed.
C20_Witness ==
  /\ status = [n \in Nodes |-> IF n = 1 THEN "reclaimed" ELSE "live"]
  /\ Chain = <<2, 3>>
  /\ next[1] = 2
  /\ owner = "list"

\* C15: the list of fourth.rs is a double-ended queue over the sequence of
\* its elements from head to tail: push_front puts x before it, push_back
\* after it, pop_front removes and returns its first element, pop_back its
\* last, a pop returns None exactly when it is empty (and then changes
\* nothing), peek_front and peek_back return its first and last element and
\* change nothing.
C15_Deque == Fourth_Contents(fourth)

C15_Front(q) == SubSeq(q, 1, Len(q) - 1)

C15_PushStep ==
  /\ (op'.name = "push_front") => C15_Deque' = <<op'.arg>> \o C15_Deque
  /\ (op'.name = "push_back") => C15_Deque' = Append(C15_Deque, op'.arg)

C15_PopStep ==
  /\ (op'.name \in {"pop_front", "pop_back"}) =>
       /\ fourth'.owner = "list"
       /\ (op'.ret = None) <=> (C15_Deque = <<>>)
       /\ C15_Deque = <<>> => C15_Deque' = <<>>
  /\ (op'.name = "pop_front" /\ C15_Deque # <<>>) =>
       /\ op'.ret = Some(Head(C15_Deque))
       /\ C15_Deque' = Tail(C15_Deque)
  /\ (op'.name = "pop_back" /\ C15_Deque # <<>>) =>
       /\ op'.ret = Some(C15_Deque[Len(C15_Deque)])
       /\ C15_Deque' = C15_Front(C15_Deque)

C15_PeekStep ==
  /\ (op'.name = "peek_front") =>
       /\ op'.ret = IF C15_Deque = <<>> THEN None ELSE Some(Head(C15_Deque))
       /\ fourth' = fourth
  /\ (op'.name = "peek_back") =>
       /\ op'.ret = IF C15_Deque = <<>> THEN None ELSE Some(C15_Deque[Len(C15_Deque)])
       /\ fourth' = fourth

C15_IsDeque == [][C15_PushStep /\ C15_PopStep /\ C15_PeekStep]_vars

\* push_front(1), push_back(2), push_front(2), then pop_back returns the 2
\* pushed at the back and leaves 2, 1.
C15_Witness ==
  /\ op = Call("pop_back", 0, Some(2), 2)
  /\ C15_Deque = <<2, 1>>
  /\ fourth.head = 3
  /\ fourth.tail = 1
  /\ fourth.status[2] = "released"

\* C16: in first.rs and second.rs push puts its argument in front of the
\* elements held and pop removes and returns the first of them, None exactly
\* when there is none; while only push and pop have been called the element
\* popped is the one pushed last among those not yet popped; in second.rs
\* len() is pushes plus successful insert_at calls minus value-returning
\* pops, and is_empty() is true exactly when len() is 0.
C16_LiveNodes(l) == {n \in Nodes : l.status[n] = "live"}

C16_Newest(l) == CHOOSE n \in C16_LiveNodes(l) : \A m \in C16_LiveNodes(l) : m <= n

C16_PushOf(l, lp) == Stack_Contents(lp) = <<op'.arg>> \o Stack_Contents(l)

C16_PopOf(l, lp) ==
  /\ (op'.ret = None) <=> (Stack_Contents(l) = <<>>)
  /\ Stack_Contents(l) = <<>> => lp = l
  /\ Stack_Contents(l) # <<>> =>
       /\ op'.ret = Some(Head(Stack_Contents(l)))
       /\ Stack_Contents(lp) = Tail(Stack_Contents(l))

C16_LifoOf(l) ==
  C16_LiveNodes(l) # {} =>
    /\ op'.node = C16_Newest(l)
    /\ op'.ret = Some(l.elem[C16_Newest(l)])

C16_Step ==
  /\ (op'.name = "first.push") => C16_PushOf(first, first')
  /\ (op'.name = "second.push") => C16_PushOf(second, second')
  /\ (op'.name = "first.pop") => (C16_PopOf(first, first') /\ C16_LifoOf(first))
  /\ (op'.name = "second.pop") => C16_PopOf(second, second')
  /\ (op'.name = "second.pop" /\ second.inserts = 0) => C16_LifoOf(second)
  /\ (op'.name = "second.len") => op'.ret = second.pushes + second.inserts - second.pops
  /\ (op'.name = "second.is_empty") => (op'.ret <=> (Second_len_of(second) = 0))

C16_Len ==
  /\ Second_len_of(second) = second.pushes + second.inserts - second.pops
  /\ Second_len_of(second) = Len(Stack_Contents(second))
  /\ Second_is_empty_of(second) <=> (Second_len_of(second) = 0)

C16_Stacks == [](C16_Len) /\ [][C16_Step]_vars

\* second.rs: push 1, push 2, pop, push 1, pop returns the 1 pushed last and
\* leaves the 1 pushed first.
C16_Witness ==
  /\ op.name = "second.pop"
  /\ op.ret = Some(1)
  /\ op.node = 3
  /\ second.status = [n \in Nodes |-> IF n = 1 THEN "live" ELSE "freed"]
  /\ second.elem = [n \in Nodes |-> IF n = 2 THEN 2 ELSE 1]
  /\ second.pushes = 3
  /\ second.pops = 2
  /\ second.inserts = 0
  /\ Second_len_of(second) = 1

\* C17: insert_at(index, elem) on a list of second.rs that holds n elements
\* returns Ok exactly when index <= n and Err exactly when index > n; on Ok
\* elem is the element at position index from the head, the elements that
\* were held keep their order around it and len() is n + 1; on Err the list
\* is as it was.
C17_InsertStep ==
  (op'.name = "second.insert_at") =>
    LET c == Stack_Contents(second)
        n == Second_len_of(second)
        index == op'.index
    IN /\ n = Len(c)
       /\ (op'.ret = Ok) <=> (index <= n)
       /\ (op'.ret # Ok) <=> (index > n)
       /\ op'.ret # Ok => (Len(op'.ret) = 2 /\ op'.ret[1] = "Err")
       /\ op'.ret = Ok =>
            /\ Stack_Contents(second') = SubSeq(c, 1, index) \o <<op'.arg>> \o SubSeq(c, index + 1, n)
            /\ Stack_Contents(second')[index + 1] = op'.arg
            /\ Second_len_of(second') = n + 1
       /\ op'.ret # Ok =>
            /\ second' = second
            /\ Stack_Contents(second') = c
            /\ Second_len_of(second') = n

C17_InsertAt == [][C17_InsertStep]_vars

\* insert_at(1, 2) on a list that holds 1, 1 gives 1, 2, 1.
C17_Witness ==
  /\ op = CallAt("second.insert_at", 1, 2, Ok, 3)
  /\ Stack_Contents(second) = <<1, 2, 1>>
  /\ second.head = 2
  /\ second.inserts = 1

\* C18: in third.rs a prepend or tail step leaves every list that was live,
\* the one it is called on included, with the same head field, len(), head()
\* and elements, and every node with the same element and link;
\* l.prepend(x) holds x followed by the elements of l; l.tail() holds the
\* elements of l without the first, none when l holds at most one; and
\* l.prepend(x).tail() holds the elements of l.
C18_Same(l) ==
  /\ third'.lists[l] = third.lists[l]
  /\ Third_Elems(third', l) = Third_Elems(third, l)
  /\ Third_len_of(third', l) = Third_len_of(third, l)
  /\ Third_head_of(third', l) = Third_head_of(third, l)
  /\ Third_is_empty_of(third', l) = Third_is_empty_of(third, l)

C18_Step ==
  (op'.name \in {"prepend", "tail"}) =>
    LET e == Third_Elems(third, op'.list)
        made == Third_Elems(third', op'.made)
    IN /\ \A l \in Lists : third.lists[l].state = "live" => C18_Same(l)
       /\ \A n \in Nodes : third.status[n] = "live" =>
            /\ third'.status[n] = "live"
            /\ third'.elem[n] = third.elem[n]
            /\ third'.next[n] = third.next[n]
       /\ third.lists[op'.made].state = "none"
       /\ third'.lists[op'.made].state = "live"
       /\ op'.name = "prepend" => made = <<op'.arg>> \o e
       /\ op'.name = "tail" => made = IF Len(e) <= 1 THEN <<>> ELSE Tail(e)

C18_PrependTail ==
  \A t, p, l \in Lists :
    ( /\ third.lists[t].state = "live"
      /\ third.lists[l].state = "live"
      /\ third.lists[t].origin = Origin("tail", p, 0)
      /\ third.lists[p].origin.op = "prepend"
      /\ third.lists[p].origin.from = l )
    => /\ Third_Elems(third, t) = Third_Elems(third, l)
       /\ third.lists[t].head = third.lists[l].head

C18_Persistent == [](C18_PrependTail) /\ [][C18_Step]_vars

\* l holds 1; p = l.prepend(2) holds 2, 1; p.tail() holds 1, and l and p are
\* as before.
C18_Witness ==
  /\ op = CallOn("tail", 3, 0, None, 4)
  /\ third.lists[3].origin = Origin("prepend", 2, 2)
  /\ \A l \in Lists : third.lists[l].state = "live"
  /\ Third_Elems(third, 2) = <<1>>
  /\ Third_Elems(third, 3) = <<2, 1>>
  /\ Third_Elems(third, 4) = <<1>>

\* C21: the position an IterMut holds is never a node it has yielded, and the
\* nodes one IterMut has yielded are pairwise distinct; a next() that yields
\* node n leaves the IterMut at the successor of n, read from n's link as it
\* was before the call.
C21_Position ==
  \A r \in BagToSet(refs) :
    r.kind = "iter_mut" =>
      /\ r.node \notin Range(r.seen)
      /\ \A i, j \in 1..Len(r.seen) : i # j => r.seen[i] # r.seen[j]

C21_NextStep ==
  (op'.name = "iter_mut_next" /\ op'.ret # None) =>
    \E r \in BagToSet(refs) :
      /\ r.kind = "iter_mut"
      /\ r.node = op'.node
      /\ BagIn(Ref("iter_mut", next[op'.node], Append(r.seen, op'.node)), refs')
      /\ BagIn(Ref("item_mut", op'.node, <<>>), refs')
      /\ next[op'.node] # op'.node
      /\ next' = next

C21_AdvanceBeforeYield == [](C21_Position) /\ [][C21_NextStep]_vars

\* An IterMut over three nodes has yielded nodes 1 and 2, stands at node 3,
\* and the &mut T to the element of node 2 is live.
C21_Witness ==
  /\ op = Call("iter_mut_next", 0, Some(elem[2]), 2)
  /\ refs = SetToBag({Ref("iter_mut", 3, <<1, 2>>), Ref("item_mut", 2, <<>>)})
  /\ Chain = <<1, 2, 3>>

\* C22: a traversal of a queue that holds n elements has yielded at most n
\* and returns None exactly when it has yielded n; each yielding next() adds
\* one to what it has yielded; an IntoIter returns a value on its first n
\* calls of next() and None on every later one; drop makes exactly n
\* value-returning pops and leaves head and tail null.
C22_Yielded ==
  \A r \in BagToSet(refs) :
    r.kind \in {"iter", "iter_mut"} =>
      /\ Len(r.seen) + Len(ChainFrom(r.node, MaxNodes + 1)) = Len(Chain)
      /\ Len(r.seen) <= Len(Chain)
      /\ (r.node = NULL) <=> (Len(r.seen) = Len(Chain))

C22_IntoIter ==
  \A i \in 1..Len(into.out) : (into.out[i] = None) <=> (i > Len(into.snap))

C22_NextStep ==
  (op'.name \in {"iter_next", "iter_mut_next"}) =>
    LET kind == IF op'.name = "iter_next" THEN "iter" ELSE "iter_mut"
    IN \E r \in BagToSet(refs) :
         /\ r.kind = kind
         /\ (op'.ret = None) <=> (Len(r.seen) = Len(Chain))
         /\ op'.ret = None => refs' = refs
         /\ op'.ret # None =>
              \E q \in BagToSet(refs') :
                /\ q.kind = kind
                /\ Len(q.seen) = Len(r.seen) + 1
                /\ refs' (-) SetToBag({q}) (-) SetToBag({Ref(IF kind = "iter" THEN "item" ELSE "item_mut", op'.node, <<>>)})
                     = refs (-) SetToBag({r})

C22_DropStep ==
  (op'.name = "drop") =>
    /\ Len(popped') = Len(popped) + Len(Chain)
    /\ \A i \in (Len(popped) + 1)..Len(popped') : popped'[i].by = "drop"
    /\ head' = NULL
    /\ tail' = NULL

C22_Terminates == [](C22_Yielded /\ C22_IntoIter) /\ [][C22_NextStep /\ C22_DropStep]_vars

\* An IterMut over two elements has yielded both and returns None.
C22_Witness ==
  /\ Len(Chain) = 2
  /\ op = Call("iter_mut_next", 0, None, NULL)
  /\ \E r \in BagToSet(refs) : r.kind = "iter_mut" /\ r.node = NULL /\ Len(r.seen) = 2

\* C23: pop_front and pop_back never panic: where a pop reaches
\* Rc::try_unwrap(node).unwrap() the local Rc is the only strong reference
\* to the node, the two that held it before (head and the next node's prev,
\* tail and the previous node's next, or head and tail for a single node)
\* being cleared; the node is released and the list stays usable.
C23_NoPanic ==
  /\ fourth.owner # "panicked"
  /\ fourth.owner = "list" =>
       /\ Fourth_pop_front_of(fourth).list.owner = "list"
       /\ Fourth_pop_back_of(fourth).list.owner = "list"

C23_PopStep ==
  (op'.name \in {"pop_front", "pop_back"} /\ op'.node # NULL) =>
    /\ fourth.status[op'.node] = "live"
    /\ Fourth_Strong(fourth, op'.node) = 2
    /\ Fourth_Strong(fourth', op'.node) = 0
    /\ fourth'.status[op'.node] = "released"
    /\ op'.ret = Some(fourth.elem[op'.node])
    /\ fourth'.owner = "list"

C23_PopsUnwrap == [](C23_NoPanic) /\ [][C23_PopStep]_vars

\* pop_back on a list whose only node is held by both head and tail.
C23_Witness ==
  /\ op = Call("pop_back", 0, Some(2), 1)
  /\ fourth.allocated = 1
  /\ fourth.status[1] = "released"
  /\ fourth.head = NULL
  /\ fourth.tail = NULL
  /\ fourth.owner = "list"

\* C24: after Drop::drop of a list of fourth.rs no node is live: every node
\* the list held has been released, none is held by a next or prev link.
C24_NoneLeft ==
  \A n \in Nodes :
    /\ fourth.status[n] # "live"
    /\ Fourth_Strong(fourth, n) = 0

C24_DropReleasesAll == (fourth.owner = "dropped") => C24_NoneLeft

\* C25: while the list of fourth.rs is in use, head is None exactly when
\* tail is None; otherwise head has no prev, tail has no next, the chain from
\* head along next ends at tail and holds every live node, and b is the next
\* of a exactly when a is the prev of b.
C25_Chain == Fourth_ChainFrom(fourth, fourth.head, MaxNodes + 1)

C25_LiveNodes == {n \in Nodes : fourth.status[n] = "live"}

C25_Links ==
  /\ (fourth.head = NULL) <=> (fourth.tail = NULL)
  /\ fourth.head # NULL =>
       /\ fourth.head \in C25_LiveNodes
       /\ fourth.tail \in C25_LiveNodes
       /\ fourth.prev[fourth.head] = NULL
       /\ fourth.next[fourth.tail] = NULL
       /\ C25_Chain[Len(C25_Chain)] = fourth.tail
  /\ {C25_Chain[i] : i \in 1..Len(C25_Chain)} = C25_LiveNodes
  /\ Len(C25_Chain) = Cardinality(C25_LiveNodes)
  /\ \A a, b \in C25_LiveNodes : (fourth.next[a] = b) <=> (fourth.prev[b] = a)
  /\ \A a \in C25_LiveNodes :
       /\ fourth.next[a] # NULL => fourth.next[a] \in C25_LiveNodes
       /\ fourth.prev[a] # NULL => fourth.prev[a] \in C25_LiveNodes

C25_WellLinked == (fourth.owner = "list") => C25_Links

\* push_front, push_back, push_back, pop_front: nodes 2 and 3 linked both ways.
C25_Witness ==
  /\ op.name = "pop_front"
  /\ op.node = 1
  /\ fourth.head = 2
  /\ fourth.tail = 3
  /\ fourth.next[2] = 3
  /\ fourth.prev[3] = 2
  /\ fourth.prev[2] = NULL
  /\ fourth.owner = "list"

\* C26: a drop of one list of third.rs leaves every other live list with the
\* same head field, len(), head() and elements, and every node such a list
\* reaches live and unchanged; the nodes it frees are the longest run of
\* nodes from the dropped list's head that nothing else held (strong count
\* one before the call), and it stops at the first node held elsewhere.
RECURSIVE C26_NodesFrom(_, _, _)
C26_NodesFrom(t, n, k) ==
  IF n = NULL \/ k = 0 THEN <<>> ELSE <<n>> \o C26_NodesFrom(t, t.next[n], k - 1)

C26_Nodes(t, l) == C26_NodesFrom(t, t.lists[l].head, MaxNodes + 1)

C26_Reachable ==
  \A l \in Lists : third.lists[l].state = "live" =>
    \A n \in Range(C26_Nodes(third, l)) : third.status[n] = "live"

C26_DropStep ==
  (op'.name = "drop") =>
    LET c == C26_Nodes(third, op'.list)
        freed == {n \in Nodes : third.status[n] = "live" /\ third'.status[n] = "freed"}
        k == Cardinality(freed)
    IN /\ third'.lists[op'.list].state = "dropped"
       /\ \A l \in Lists \ {op'.list} :
            /\ third'.lists[l] = third.lists[l]
            /\ third.lists[l].state = "live" =>
                 /\ Third_Elems(third', l) = Third_Elems(third, l)
                 /\ Third_len_of(third', l) = Third_len_of(third, l)
                 /\ Third_head_of(third', l) = Third_head_of(third, l)
                 /\ C26_Nodes(third', l) = C26_Nodes(third, l)
                 /\ Range(C26_Nodes(third, l)) \cap freed = {}
       /\ k <= Len(c)
       /\ freed = {c[i] : i \in 1..k}
       /\ \A i \in 1..k : Third_Strong(third, c[i]) = 1
       /\ k < Len(c) => Third_Strong(third, c[k + 1]) > 1
       /\ \A n \in Nodes \ freed :
            /\ third'.status[n] = third.status[n]
            /\ third'.elem[n] = third.elem[n]
            /\ third'.next[n] = third.next[n]

C26_DropKeepsShared == [](C26_Reachable) /\ [][C26_DropStep]_vars

\* List 2 holds 1, list 3 = list 2 .prepend(2) holds 2, 1, list 4 is
\* list 3 .tail(); drop of list 3 frees node 2 only.
C26_Witness ==
  /\ op = CallOn("drop", 3, 0, None, 0)
  /\ third.lists[3].origin = Origin("prepend", 2, 2)
  /\ third.lists[4].origin = Origin("tail", 3, 0)
  /\ third.lists[2].state = "live"
  /\ third.lists[4].state = "live"
  /\ third.status = [n \in Nodes |-> IF n = 1 THEN "live" ELSE IF n = 2 THEN "freed" ELSE "unallocated"]
  /\ Third_Elems(third, 2) = <<1>>
  /\ Third_Elems(third, 4) = <<1>>

====
